---- MODULE Spec2Model ----
(***************************************************************************)
(* A model of the winnow-based JSON parser of src/src/json.rs.             *)
(*                                                                         *)
(* The input stream (a &mut &str) is a sequence of one-character strings   *)
(* plus a cursor: `pos` is the number of characters consumed so far.       *)
(* Every parser is an operator P(s, i) giving the outcome of running it    *)
(* on input s with the cursor at offset i: a record                        *)
(*     [ok |-> did it return Ok, val |-> the output, pos |-> the cursor    *)
(*      offset afterwards]                                                 *)
(* All errors of this grammar are winnow's ErrMode::Backtrack (the code    *)
(* never uses cut_err, and a &str stream is never Incomplete).             *)
(*                                                                         *)
(* Library combinators are modelled by what they do to the cursor:         *)
(*   literal / digit1 / take_until : consume on success, leave the cursor  *)
(*                     where it was on failure;                            *)
(*   multispace0     : consumes a maximal run of ' ', '\t', '\r', '\n';    *)
(*   parse_to        : on a failed conversion resets to before the slice;  *)
(*   opt             : resets on failure and yields None;                  *)
(*   sequences (tuples, delimited, separated_pair) : run the parts in      *)
(*                     order, "?"-returning the first error WITHOUT        *)
(*                     resetting the cursor;                               *)
(*   alt             : takes a checkpoint, resets to it before each        *)
(*                     alternative after the first, and does not reset     *)
(*                     after the last alternative failed;                  *)
(*   separated(1..)  : first element mandatory; then loops                 *)
(*                     (separator element), and when either fails resets   *)
(*                     to before that separator and returns what it has.   *)
(*                                                                         *)
(* Two specifications share the parsers.  Spec runs whole calls: each      *)
(* action is one call of a parser, computed by its operator.  RunSpec runs *)
(* one parse_value call step by step, with the call stack of parse_value,  *)
(* parse_array and parse_object explicit: `stack` holds the frames, `ret`  *)
(* the Result just returned to the top frame, `steps` counts the steps.    *)
(***************************************************************************)
EXTENDS Integers, Sequences, FiniteSets, TLC

VARIABLES input, pos, op, start, res, stack, ret, steps

vars == <<input, pos, op, start, res, stack, ret, steps>>

\* the part of the state only a step-by-step run of parse_value uses
run == <<stack, ret, steps>>

(***************************************************************************)
(* Bounds of the input families drawn by Init.                             *)
(***************************************************************************)
MaxNumLen == 4
MaxStrLen == 4
MaxTok == 4
MaxPairs == 2
MaxElems == 2

(***************************************************************************)
(* Characters.                                                             *)
(***************************************************************************)
Digits == {"0", "1", "2", "3", "4", "5", "6", "7", "8", "9"}

\* winnow::ascii::multispace0 accepts these four characters
WhiteSpace == {" ", "\t", "\r", "\n"}

DigitVal(c) ==
    CASE c = "0" -> 0 [] c = "1" -> 1 [] c = "2" -> 2 [] c = "3" -> 3
      [] c = "4" -> 4 [] c = "5" -> 5 [] c = "6" -> 6 [] c = "7" -> 7
      [] c = "8" -> 8 [] c = "9" -> 9

(***************************************************************************)
(* Outcomes.                                                               *)
(***************************************************************************)
NoVal == <<"None">>

Ok(v, p) == [ok |-> TRUE, val |-> v, pos |-> p]

Err(p) == [ok |-> FALSE, val |-> NoVal, pos |-> p]

\* the marker of a panic raised at `site`
PanicAt(site) == <<"Panic", site>>

\* a call that does not return: a panic raised at `site`, cursor at p
Panicked(site, p) == [ok |-> FALSE, val |-> PanicAt(site), pos |-> p]

\* r is a panic, which no combinator recovers from
IsPanic(r) == ~r.ok /\ r.val # NoVal

\* the slice s[i+1 .. j] between offsets i and j
Slice(s, i, j) == SubSeq(s, i + 1, j)

(***************************************************************************)
(* Lexical primitives.                                                     *)
(***************************************************************************)
\* a literal tag (a &str or a char): Compare at the cursor
Literal(lit, s, i) ==
    IF i + Len(lit) <= Len(s) /\ Slice(s, i, i + Len(lit)) = lit
    THEN Ok(lit, i + Len(lit))
    ELSE Err(i)

RECURSIVE RunEnd(_, _, _)
\* the offset after the maximal run of characters of `set` starting at i
RunEnd(set, s, i) ==
    IF i < Len(s) /\ s[i + 1] \in set THEN RunEnd(set, s, i + 1) ELSE i

\* multispace0: always succeeds
Multispace0(s, i) == Ok(<<>>, RunEnd(WhiteSpace, s, i))

\* a variant that would take a sign before the digits, as the conversion
\* str::parse::<i64> behind it does
Digit1Signed(s, i) ==
    LET b == IF i < Len(s) /\ s[i + 1] \in {"-", "+"} THEN i + 1 ELSE i
        j == RunEnd(Digits, s, b)
    IN  IF j > b THEN Ok(Slice(s, i, j), j) ELSE Err(i)

\* digit1: a non-empty maximal run of decimal digits
Digit1(s, i) ==
    LET j == RunEnd(Digits, s, i)
    IN  IF j > i THEN Ok(Slice(s, i, j), j) ELSE Err(i)

RECURSIVE FindChar(_, _, _)
\* the offset of the first occurrence of c at or after offset i, -1 if none
FindChar(c, s, i) ==
    IF i >= Len(s) THEN -1
    ELSE IF s[i + 1] = c THEN i
    ELSE FindChar(c, s, i + 1)

\* a search that would honour backslash escapes, which the code does not do
QuoteAwareFind(s, i) ==
    LET RECURSIVE F(_)
        F(k) == IF k >= Len(s) THEN -1
                ELSE IF s[k + 1] = "\\" /\ k + 1 < Len(s) THEN F(k + 2)
                ELSE IF s[k + 1] = "\"" THEN k
                ELSE F(k + 1)
    IN  F(i)

\* where take_until(0.., '"') stops: the first '"' at or after the cursor
FindQuote(s, i) == FindChar("\"", s, i)

\* take_until(0.., '"')
TakeUntilQuote(s, i) ==
    LET j == FindQuote(s, i)
    IN  IF j < 0 THEN Err(i) ELSE Ok(Slice(s, i, j), j)

(***************************************************************************)
(* i64 conversion and formatting, on digit strings.                        *)
(***************************************************************************)
RECURSIVE StripLeadingZeros(_)
\* the decimal digits of the number a digit run denotes ("007" is 7)
StripLeadingZeros(d) ==
    IF Len(d) > 1 /\ d[1] = "0" THEN StripLeadingZeros(Tail(d)) ELSE d

RECURSIVE StripTrailingZeros(_)
StripTrailingZeros(d) ==
    IF Len(d) > 0 /\ d[Len(d)] = "0"
    THEN StripTrailingZeros(SubSeq(d, 1, Len(d) - 1))
    ELSE d

\* the decimal digits of i64::MAX, 9223372036854775807
I64MaxDigits ==
    <<"9", "2", "2", "3", "3", "7", "2", "0", "3", "6",
      "8", "5", "4", "7", "7", "5", "8", "0", "7">>

RECURSIVE DigitsLeq(_, _)
\* a <= b for digit strings of the same length
DigitsLeq(a, b) ==
    IF a = <<>> THEN TRUE
    ELSE IF DigitVal(a[1]) < DigitVal(b[1]) THEN TRUE
    ELSE IF DigitVal(a[1]) > DigitVal(b[1]) THEN FALSE
    ELSE DigitsLeq(Tail(a), Tail(b))

\* the decimal digits of the magnitude of i64::MIN, 9223372036854775808
I64MinMagnitude == SubSeq(I64MaxDigits, 1, Len(I64MaxDigits) - 1) \o <<"8">>

\* a decimal text starts with '-'
IsNegText(d) == d # <<>> /\ d[1] = "-"

\* a decimal text without its sign
Magnitude(d) == IF d # <<>> /\ d[1] \in {"-", "+"} THEN Tail(d) ELSE d

\* the largest magnitude an i64 of the sign of d has
I64Limit(d) == IF IsNegText(d) THEN I64MinMagnitude ELSE I64MaxDigits

\* c, without leading zeros, is at most lim
MagnitudeLeq(c, lim) ==
    \/ Len(c) < Len(lim)
    \/ Len(c) = Len(lim) /\ DigitsLeq(c, lim)

\* a conversion that would never fail (one that wraps around or saturates)
FitsAlways(d) == TRUE

\* str::parse::<i64> succeeds on sign? digit+ iff the value is in
\* [i64::MIN, i64::MAX]: no wrap-around, no saturation
FitsI64(d) == MagnitudeLeq(StripLeadingZeros(Magnitude(d)), I64Limit(d))

\* what "{}" prints for the i64 a text converts to
CanonicalI64(d) ==
    (IF IsNegText(d) /\ ~(\A k \in 1..Len(Magnitude(d)) : Magnitude(d)[k] = "0")
     THEN <<"-">> ELSE <<>>) \o StripLeadingZeros(Magnitude(d))

\* digit1.parse_to::<i64>(): the value is kept as its canonical decimal
\* text (what "{}" prints for it); a failed conversion resets the cursor
ToI64(i, r) ==
    IF ~r.ok THEN r
    ELSE IF FitsI64(r.val) THEN Ok(CanonicalI64(r.val), r.pos)
    ELSE Err(i)

Digit1ToI64(s, i) == ToI64(i, Digit1(s, i))

(***************************************************************************)
(* Num and JsonValue.                                                      *)
(***************************************************************************)
IsZero(d) == \A k \in 1..Len(d) : d[k] = "0"

\* Num::Int(v): sign and canonical magnitude (Int(-0) is Int(0))
IntV(neg, d) == <<"Int", neg /\ ~IsZero(d), d>>

\* Num::Float(v), v the decimal int.frac: the f64 nearest to a decimal of at
\* most 15 significant digits identifies that decimal, so v is kept as the
\* decimal without trailing fractional zeros (-0.0 == 0.0)
FloatV(neg, int, frac) ==
    <<"Float", neg /\ ~(IsZero(int) /\ IsZero(frac)), int, StripTrailingZeros(frac)>>

JNull == <<"Null">>

JBool(b) == <<"Bool", b>>

JNumber(n) == <<"Number", n>>

JString(t) == <<"String", t>>

JArray(items) == <<"Array", items>>

JObject(map) == <<"Object", map>>

(***************************************************************************)
(* Parsers.  A parser that runs several parts in sequence is written as a  *)
(* chain of continuations, one per `?` of the code: each takes the outcome *)
(* of the part before it and either returns that error as it is (cursor    *)
(* included) or runs the next part.                                        *)
(***************************************************************************)
\* p.value(v) / p.map(..): the outcome r of p with its output replaced
Value(r, v) == IF r.ok THEN Ok(v, r.pos) ELSE r

\* "null".value(())
ParseNull(s, i) == Value(Literal(<<"n", "u", "l", "l">>, s, i), <<>>)

\* alt(("true", "false")).parse_to::<bool>(), t and f the two literals' outcomes
BoolOf(t, f) ==
    IF t.ok THEN Ok(TRUE, t.pos)
    ELSE IF f.ok THEN Ok(FALSE, f.pos)
    ELSE f

ParseBool(s, i) ==
    BoolOf(Literal(<<"t", "r", "u", "e">>, s, i),
           Literal(<<"f", "a", "l", "s", "e">>, s, i))

\* format!("{}.{}", num, frac): both are i64 values, printed canonically
FormatFloat(num, frac) == num \o <<".">> \o frac

\* where the integer digits of a decimal text end
F64IntEnd(text) == RunEnd(Digits, text, Len(text) - Len(Magnitude(text)))

\* where the fraction of a decimal text ends
F64FracEnd(text) ==
    IF F64IntEnd(text) < Len(text) /\ text[F64IntEnd(text) + 1] = "."
    THEN RunEnd(Digits, text, F64IntEnd(text) + 1)
    ELSE F64IntEnd(text)

\* str::parse::<f64> returns Ok on a text over digits, signs and '.' iff it
\* is sign? digit* ('.' digit*)? with at least one digit
IsF64Text(text) ==
    /\ F64FracEnd(text) = Len(text)
    /\ \/ F64IntEnd(text) > Len(text) - Len(Magnitude(text))
       \/ F64FracEnd(text) > F64IntEnd(text) + 1

\* str::parse::<f64> on a text it accepts, of the shape sign? digits '.' digits
ParseF64(text) ==
    FloatV(IsNegText(text),
           StripLeadingZeros(Slice(text, Len(text) - Len(Magnitude(text)), F64IntEnd(text))),
           Slice(text, F64IntEnd(text) + 1, Len(text)))

\* .parse::<f64>().unwrap(): the f64, or a panic on a text that is no f64
UnwrapF64(text) == IF IsF64Text(text) THEN ParseF64(text) ELSE PanicAt("unwrap")

\* Num::Int(num) for an i64 kept as its decimal text
IntOf(num) == IntV(IsNegText(num), Magnitude(num))

\* Num::Int(-num): the negation overflows on i64::MIN only (a panic in a
\* debug build, a wrap to i64::MIN in a release build)
NegI64(num) ==
    IF num = <<"-">> \o I64MinMagnitude THEN PanicAt("negate")
    ELSE IntV(~IsNegText(num), Magnitude(num))

\* -v on an f64
NegateFloat(v) == FloatV(~v[2], v[3], v[4])

\* Num::Float(-v) or Num::Float(v); a panic of the unwrap comes first
SignedFloat(sign, v) == IF sign /\ v # PanicAt("unwrap") THEN NegateFloat(v) ELSE v

\* Num::Int(-num) or Num::Int(num)
SignedInt(sign, num) == IF sign THEN NegI64(num) ELSE IntOf(num)

\* Ok(value) at cursor p, unless building the value panicked
Built(v, p) == IF v \in {PanicAt("unwrap"), PanicAt("negate")} THEN Panicked(v[2], p) ELSE Ok(v, p)

\* a variant that would give Int for a literal whose fraction is zero
NumIntWhenFracZero(sign, num, hasDot, frac) ==
    IF hasDot /\ ~IsZero(frac)
    THEN SignedFloat(sign, UnwrapF64(FormatFloat(num, frac)))
    ELSE SignedInt(sign, num)

\* the value parse_num builds once the literal is consumed
NumOf(sign, num, hasDot, frac) ==
    IF hasDot
    THEN SignedFloat(sign, UnwrapF64(FormatFloat(num, frac)))
    ELSE SignedInt(sign, num)

\* after the fraction digits
NumAfterFrac(sign, num, frac) ==
    IF frac.ok THEN Built(NumOf(sign, num.val, TRUE, frac.val), frac.pos) ELSE frac

\* after the attempt at '.': a '.' commits to a fraction
NumAfterDot(s, sign, num, dot) ==
    IF dot.ok THEN NumAfterFrac(sign, num, Digit1ToI64(s, dot.pos))
    ELSE Built(NumOf(sign, num.val, FALSE, <<>>), num.pos)

\* after the integer digits
NumAfterInt(s, sign, num) ==
    IF num.ok THEN NumAfterDot(s, sign, num, Literal(<<".">>, s, num.pos)) ELSE num

\* after opt("-")
NumAfterSign(s, sign) == NumAfterInt(s, sign.ok, Digit1ToI64(s, sign.pos))

\* a variant that would skip whitespace before the number
ParseNumAfterWhitespace(s, i) ==
    NumAfterSign(s, Literal(<<"-">>, s, Multispace0(s, i).pos))

ParseNum(s, i) == NumAfterSign(s, Literal(<<"-">>, s, i))

\* after take_until: the closing '"'
StringAfterBody(s, body) ==
    IF body.ok THEN Value(Literal(<<"\"">>, s, body.pos), body.val) ELSE body

\* after the opening '"'
StringAfterOpen(s, q1) ==
    IF q1.ok THEN StringAfterBody(s, TakeUntilQuote(s, q1.pos)) ELSE q1

\* delimited('"', take_until(0.., '"'), '"')
ParseString(s, i) == StringAfterOpen(s, Literal(<<"\"">>, s, i))

\* a variant that would take the token as optional
SkipAfterOptionalToken(s, t) == Ok(<<>>, RunEnd(WhiteSpace, s, t.pos))

\* after the token of skip_whitespace: the trailing multispace0
SkipAfterToken(s, t) ==
    IF t.ok THEN Ok(<<>>, RunEnd(WhiteSpace, s, t.pos)) ELSE t

\* a variant without the leading multispace0
SkipWhitespaceNoLeading(c, s, i) == SkipAfterToken(s, Literal(<<c>>, s, i))

\* skip_whitespace(c): multispace0, the token, multispace0
SkipWhitespace(c, s, i) ==
    SkipAfterToken(s, Literal(<<c>>, s, Multispace0(s, i).pos))

\* the lower end separated(0.., ..) would have
ArrayMinElemsZero == 1 - 1

\* the lower end of the range in separated(1.., parse_value, sep_comma)
ArrayMinElems == 1

\* the lower end of the range in separated(1.., parse_kv_pair, sep_comma)
ObjectMinPairs == 1

\* a variant that would keep the first value of a key (entry().or_insert)
AccumulateKeepFirst(map, k, v) ==
    [x \in DOMAIN map \cup {k} |-> IF x \in DOMAIN map THEN map[x] ELSE v]

\* Accumulate for HashMap: map.insert(k, v)
Accumulate(map, k, v) ==
    [x \in DOMAIN map \cup {k} |-> IF x = k THEN v ELSE map[x]]

RECURSIVE CollectMap(_, _)
\* the HashMap `separated` accumulates the pairs into, in parse order
CollectMap(pairs, map) ==
    IF pairs = <<>> THEN map
    ELSE CollectMap(Tail(pairs), Accumulate(map, pairs[1][1], pairs[1][2]))

\* a variant that would let the next alternative start where the failed one stopped
AltNextNoReset(startpos, r) == r.pos

\* alt: input.reset(&start) before trying the next alternative
AltNext(startpos, r) == startpos

\* a variant that would rewind to the checkpoint after the last alternative
AltFailReset(startpos, r) == Err(startpos)

\* alt: after the last alternative failed the error is returned with the
\* cursor where that alternative left it
AltFail(startpos, r) == Err(r.pos)

RECURSIVE ParseValue(_, _)
RECURSIVE ParseArray(_, _)
RECURSIVE ParseObject(_, _)
RECURSIVE SeparatedLoop(_, _, _, _)

\* after the value of a pair: the (key, value) tuple
PairAfterValue(k, v) == IF v.ok THEN Ok(<<k.val, v.val>>, v.pos) ELSE v

\* after the ':' of a pair: the value
PairAfterColon(s, k, c) ==
    IF c.ok THEN PairAfterValue(k, ParseValue(s, c.pos)) ELSE c

\* after the key of a pair
PairAfterKey(s, k) ==
    IF k.ok THEN PairAfterColon(s, k, SkipWhitespace(":", s, k.pos)) ELSE k

\* separated_pair(parse_string, sep_colon, parse_value)
ParseKvPair(s, i) == PairAfterKey(s, ParseString(s, i))

\* the element parser handed to `separated`
Element(kind, s, i) ==
    IF kind = "value" THEN ParseValue(s, i) ELSE ParseKvPair(s, i)

\* `separated`, after the element that followed a separator: when it failed,
\* reset to i, the offset before that separator, and return the items
SeparatedAfterElem(kind, s, i, acc, el) ==
    IF el.ok THEN SeparatedLoop(kind, s, el.pos, Append(acc, el.val))
    ELSE IF IsPanic(el) THEN el
    ELSE Ok(acc, i)

\* `separated`, after a separator: when it failed, reset to i
SeparatedAfterSep(kind, s, i, acc, sep) ==
    IF sep.ok THEN SeparatedAfterElem(kind, s, i, acc, Element(kind, s, sep.pos))
    ELSE Ok(acc, i)

\* the loop of `separated` after an element: (separator element)*
SeparatedLoop(kind, s, i, acc) ==
    SeparatedAfterSep(kind, s, i, acc, SkipWhitespace(",", s, i))

\* `separated`, after the first element
SeparatedAfterFirst(min, kind, s, i, first) ==
    IF first.ok THEN SeparatedLoop(kind, s, first.pos, <<first.val>>)
    ELSE IF min = 0 THEN Ok(<<>>, i)
    ELSE first

\* separated(min.., element, sep_comma), the items in parse order
Separated(min, kind, s, i) ==
    SeparatedAfterFirst(min, kind, s, i, Element(kind, s, i))

\* delimited: after the items, the closing token c
DelimitedAfterItems(c, s, items) ==
    IF items.ok THEN Value(SkipWhitespace(c, s, items.pos), items.val) ELSE items

\* delimited: after the opening token
DelimitedAfterOpen(c, min, kind, s, sep1) ==
    IF sep1.ok THEN DelimitedAfterItems(c, s, Separated(min, kind, s, sep1.pos))
    ELSE sep1

\* delimited(skip_whitespace('['), separated(1.., parse_value, ','), skip_whitespace(']'))
ParseArray(s, i) ==
    DelimitedAfterOpen("]", ArrayMinElems, "value", s, SkipWhitespace("[", s, i))

\* the source-order pairs of parse_object, before they are collected
ParsePairs(s, i) ==
    DelimitedAfterOpen("}", ObjectMinPairs, "pair", s, SkipWhitespace("{", s, i))

\* the pairs collected into the HashMap
ObjectOf(r) == IF r.ok THEN Ok(CollectMap(r.val, <<>>), r.pos) ELSE r

\* delimited(skip_whitespace('{'), separated(1.., pair, ','), skip_whitespace('}'))
ParseObject(s, i) == ObjectOf(ParsePairs(s, i))

\* alt, after its last alternative, parse_object
AltAfterObject(s, i, r) ==
    IF r.ok THEN Ok(JObject(r.val), r.pos)
    ELSE IF IsPanic(r) THEN r
    ELSE AltFail(i, r)

\* alt, after parse_array
AltAfterArray(s, i, r) ==
    IF r.ok THEN Ok(JArray(r.val), r.pos)
    ELSE IF IsPanic(r) THEN r
    ELSE AltAfterObject(s, i, ParseObject(s, AltNext(i, r)))

\* alt, after parse_string
AltAfterString(s, i, r) ==
    IF r.ok THEN Ok(JString(r.val), r.pos)
    ELSE AltAfterArray(s, i, ParseArray(s, AltNext(i, r)))

\* alt, after parse_num
AltAfterNum(s, i, r) ==
    IF r.ok THEN Ok(JNumber(r.val), r.pos)
    ELSE IF IsPanic(r) THEN r
    ELSE AltAfterString(s, i, ParseString(s, AltNext(i, r)))

\* alt, after parse_bool
AltAfterBool(s, i, r) ==
    IF r.ok THEN Ok(JBool(r.val), r.pos)
    ELSE AltAfterNum(s, i, ParseNum(s, AltNext(i, r)))

\* alt, after parse_null
AltAfterNull(s, i, r) ==
    IF r.ok THEN Ok(JNull, r.pos)
    ELSE AltAfterBool(s, i, ParseBool(s, AltNext(i, r)))

\* alt((parse_null, parse_bool, parse_num, parse_string, parse_array, parse_object))
ParseValue(s, i) == AltAfterNull(s, i, ParseNull(s, i))

\* the entry point: parse_value(input), nothing more
ParseJson(s, i) == ParseValue(s, i)

(***************************************************************************)
(* The inputs a run may start from.                                        *)
(***************************************************************************)
\* the sequences over A of length at most n
SeqsUpTo(A, n) == UNION {[1..k -> A] : k \in 0..n}

RECURSIVE Flatten(_)
\* the concatenation of a sequence of texts
Flatten(ts) == IF ts = <<>> THEN <<>> ELSE ts[1] \o Flatten(Tail(ts))

\* number-like texts
NumChars == {"0", "1", "5", "-", ".", "e"}

NumInputs == SeqsUpTo(NumChars, MaxNumLen)

\* string-like texts
StrChars == {"\"", "a", "\\", " ", "-"}

StrInputs == SeqsUpTo(StrChars, MaxStrLen)

\* texts of keywords
KwTokens ==
    {<<"n", "u", "l", "l">>, <<"t", "r", "u", "e">>, <<"f", "a", "l", "s", "e">>,
     <<"x">>, <<" ">>}

\* texts of structural tokens
StructTokens ==
    {<<"[">>, <<"]">>, <<"{">>, <<"}">>, <<",">>, <<" ">>, <<"1">>, <<"x">>}

TokInputs ==
    {Flatten(ts) : ts \in SeqsUpTo(KwTokens, MaxTok) \cup SeqsUpTo(StructTokens, MaxTok)}

\* the whitespace patterns woven into the gaps of a token list with m
\* tokens: none, a space everywhere, or one run in a single gap
GapRuns == {<<" ">>, <<"\n", "\t">>}

Gaps(m) ==
    {[g \in 0..m |-> <<>>], [g \in 0..m |-> <<" ">>]}
    \cup {[g \in 0..m |-> IF g = k THEN w ELSE <<>>] : k \in 0..m, w \in GapRuns}

RECURSIVE WeaveFrom(_, _, _)
WeaveFrom(toks, gaps, k) ==
    IF k > Len(toks) THEN <<>>
    ELSE toks[k] \o gaps[k] \o WeaveFrom(toks, gaps, k + 1)

\* gap 0, token 1, gap 1, ..., token m, gap m
Weave(toks, gaps) == gaps[0] \o WeaveFrom(toks, gaps, 1)

RECURSIVE Join(_, _)
\* the token lists of `items` joined by a "," token
Join(items, k) ==
    IF k > Len(items) THEN <<>>
    ELSE (IF k > 1 THEN <<(<<",">>)>> ELSE <<>>) \o items[k] \o Join(items, k + 1)

\* array documents: up to MaxElems elements, one of them possibly missing
ElemTexts ==
    {<<"1">>, <<"\"", "a", "\"">>, <<"[", "1", "]">>,
     <<"{", "\"", "a", "\"", ":", "1", "}">>, <<>>}

ArrayToks(es) == <<(<<"[">>)>> \o Join([k \in 1..Len(es) |-> <<es[k]>>], 1) \o <<(<<"]">>)>>

ArrayInputs ==
    UNION {{Weave(ArrayToks(es), g) : g \in Gaps(Len(ArrayToks(es)))} :
              es \in SeqsUpTo(ElemTexts, MaxElems)}

\* object documents: up to MaxPairs pairs, keys "a"/"b", a value possibly
\* missing
KeyTexts == {<<"\"", "a", "\"">>, <<"\"", "b", "\"">>}

ValTexts == {<<"1">>, <<"0">>, <<>>}

ObjectToks(ps) ==
    <<(<<"{">>)>>
    \o Join([k \in 1..Len(ps) |-> <<ps[k][1], <<":">>, ps[k][2]>>], 1)
    \o <<(<<"}">>)>>

ObjectInputs ==
    UNION {{Weave(ObjectToks(ps), g) : g \in Gaps(Len(ObjectToks(ps)))} :
              ps \in SeqsUpTo(KeyTexts \X ValTexts, MaxPairs)}

\* digit runs around the ends of the i64 range: i64::MAX, i64::MAX + 1, both
\* with a leading zero, and ten times i64::MAX
LongRuns ==
    {I64MaxDigits, I64MinMagnitude, <<"0">> \o I64MaxDigits,
     <<"0">> \o I64MinMagnitude, I64MaxDigits \o <<"0">>}

\* number literals with such a run as integer part, as fraction, or both
LongInputs ==
    {sgn \o a \o f : sgn \in {<<>>, <<"-">>},
                     a \in LongRuns \cup {<<"1">>},
                     f \in {<<>>} \cup {<<".">> \o b : b \in LongRuns \cup {<<"5">>}}}

\* one value of each kind with whitespace before it, after it, or both
EdgeRuns == {<<>>, <<" ">>, <<"\n", "\t">>}

EdgeDocs ==
    {<<"n", "u", "l", "l">>, <<"t", "r", "u", "e">>, <<"1">>, <<"-", "1", ".", "5">>,
     <<"\"", "a", " ", "\"">>, <<"[", "1", "]">>,
     <<"{", "\"", "a", "\"", ":", "1", "}">>}

EdgeInputs == {lead \o doc \o trail : lead \in EdgeRuns, doc \in EdgeDocs, trail \in EdgeRuns}

Inputs ==
    NumInputs \cup StrInputs \cup TokInputs \cup ArrayInputs \cup ObjectInputs
    \cup LongInputs \cup EdgeInputs

\* no call has returned to the frame on top of the stack
NoRet == [ok |-> FALSE, val |-> <<"NoRet">>]

(***************************************************************************)
(* The state machine: a fresh input, then parser calls on it.  Every       *)
(* caller in the source writes `parser(input)?`, so nothing is called on   *)
(* an input after a call on it returned an error.                          *)
(***************************************************************************)
Init ==
    /\ input \in Inputs
    /\ pos = 0
    /\ op = "none"
    /\ start = 0
    /\ res = [ok |-> TRUE, val |-> NoVal]
    /\ stack = <<>>
    /\ ret = NoRet
    /\ steps = 0

\* a call is possible on a fresh input or after a call that returned Ok
Callable == op = "none" \/ res.ok

\* the Result a call hands back
Returned(r) == [ok |-> r.ok, val |-> r.val]

ParseNullCall ==
    /\ Callable
    /\ op' = "parse_null"
    /\ start' = pos
    /\ res' = Returned(ParseNull(input, pos))
    /\ pos' = ParseNull(input, pos).pos
    /\ UNCHANGED <<input, run>>

ParseBoolCall ==
    /\ Callable
    /\ op' = "parse_bool"
    /\ start' = pos
    /\ res' = Returned(ParseBool(input, pos))
    /\ pos' = ParseBool(input, pos).pos
    /\ UNCHANGED <<input, run>>

ParseNumCall ==
    /\ Callable
    /\ op' = "parse_num"
    /\ start' = pos
    /\ res' = Returned(ParseNum(input, pos))
    /\ pos' = ParseNum(input, pos).pos
    /\ UNCHANGED <<input, run>>

ParseStringCall ==
    /\ Callable
    /\ op' = "parse_string"
    /\ start' = pos
    /\ res' = Returned(ParseString(input, pos))
    /\ pos' = ParseString(input, pos).pos
    /\ UNCHANGED <<input, run>>

ParseArrayCall ==
    /\ Callable
    /\ op' = "parse_array"
    /\ start' = pos
    /\ res' = Returned(ParseArray(input, pos))
    /\ pos' = ParseArray(input, pos).pos
    /\ UNCHANGED <<input, run>>

ParseObjectCall ==
    /\ Callable
    /\ op' = "parse_object"
    /\ start' = pos
    /\ res' = Returned(ParseObject(input, pos))
    /\ pos' = ParseObject(input, pos).pos
    /\ UNCHANGED <<input, run>>

ParseValueCall ==
    /\ Callable
    /\ op' = "parse_value"
    /\ start' = pos
    /\ res' = Returned(ParseValue(input, pos))
    /\ pos' = ParseValue(input, pos).pos
    /\ UNCHANGED <<input, run>>

ParseJsonCall ==
    /\ Callable
    /\ op' = "parse_json"
    /\ start' = pos
    /\ res' = Returned(ParseJson(input, pos))
    /\ pos' = ParseJson(input, pos).pos
    /\ UNCHANGED <<input, run>>

Next ==
    \/ ParseNullCall
    \/ ParseBoolCall
    \/ ParseNumCall
    \/ ParseStringCall
    \/ ParseArrayCall
    \/ ParseObjectCall
    \/ ParseValueCall
    \/ ParseJsonCall

Spec == Init /\ [][Next]_vars

(***************************************************************************)
(* One parse_value call, step by step.  A frame of `stack` is a call in    *)
(* progress: of parse_value (k = "value": `at` is the checkpoint of alt,   *)
(* `alt` the alternative it is at) or of parse_array / parse_object        *)
(* (k = "array" / "object": `phase` is where delimited and separated are,  *)
(* `acc` the items so far, `mark` the cursor at the start of the current   *)
(* iteration, `began` and `end` the cursor at the start and at the end of  *)
(* the last completed iteration, `key` the key of the pair in progress).   *)
(* `pos` is the cursor of the one stream all the calls share.              *)
(***************************************************************************)
\* what parse_value makes of the output of alternative k
Tagged(k, v) ==
    CASE k = 1 -> JNull
      [] k = 2 -> JBool(v)
      [] k = 3 -> JNumber(v)
      [] k = 4 -> JString(v)
      [] k = 5 -> JArray(v)
      [] k = 6 -> JObject(v)

\* the number of alternatives of the alt in parse_value
NumAlts == 6

\* the frame of a call parse_value(input) with the cursor at i
ValueFrame(i) ==
    [k |-> "value", at |-> i, alt |-> 1, phase |-> "alt", acc |-> <<>>,
     mark |-> i, began |-> i, end |-> i, key |-> <<>>]

\* the frame of a call parse_array(input) or parse_object(input)
ListFrame(kind, i) ==
    [k |-> kind, at |-> i, alt |-> 0, phase |-> "open", acc |-> <<>>,
     mark |-> i, began |-> i, end |-> i, key |-> <<>>]

Top == stack[Len(stack)]

Pop == SubSeq(stack, 1, Len(stack) - 1)

SetTop(f) == [stack EXCEPT ![Len(stack)] = f]

\* the tokens and the lower bound of a composite
OpenOf(kind) == IF kind = "array" THEN "[" ELSE "{"

CloseOf(kind) == IF kind = "array" THEN "]" ELSE "}"

MinOf(kind) == IF kind = "array" THEN ArrayMinElems ELSE ObjectMinPairs

\* the first four alternatives make no further call
Scalar(a, s, i) ==
    CASE a = 1 -> ParseNull(s, i)
      [] a = 2 -> ParseBool(s, i)
      [] a = 3 -> ParseNum(s, i)
      [] a = 4 -> ParseString(s, i)

\* a step is taken by the call on top of the stack
Running(kind) == stack # <<>> /\ Top.k \in kind

\* the steps, and when each can be taken
StepNames ==
    {"TryScalar", "CallArray", "CallObject", "AltReturn", "ListOpen",
     "ArrayElement", "ObjectKey", "ElementReturn", "ListSeparator",
     "ListClose", "RunReturn"}

CanTake(a) ==
    CASE a = "TryScalar" -> Running({"value"}) /\ ret = NoRet /\ Top.alt \in 1..4
      [] a = "CallArray" -> Running({"value"}) /\ ret = NoRet /\ Top.alt = 5
      [] a = "CallObject" -> Running({"value"}) /\ ret = NoRet /\ Top.alt = NumAlts
      [] a = "AltReturn" -> Running({"value"}) /\ ret # NoRet
      [] a = "ListOpen" ->
             Running({"array", "object"}) /\ Top.phase = "open" /\ ret = NoRet
      [] a = "ArrayElement" -> Running({"array"}) /\ Top.phase = "elem" /\ ret = NoRet
      [] a = "ObjectKey" -> Running({"object"}) /\ Top.phase = "elem" /\ ret = NoRet
      [] a = "ElementReturn" ->
             Running({"array", "object"}) /\ Top.phase = "elem" /\ ret # NoRet
      [] a = "ListSeparator" ->
             Running({"array", "object"}) /\ Top.phase = "sep" /\ ret = NoRet
      [] a = "ListClose" ->
             Running({"array", "object"}) /\ Top.phase = "close" /\ ret = NoRet
      [] a = "RunReturn" -> stack = <<>> /\ ret # NoRet /\ op = "none"

\* what every step leaves alone
Step ==
    /\ steps' = steps + 1
    /\ UNCHANGED <<input, op, start, res>>

\* alt, after a scalar alternative: return its value, unwind on a panic, or
\* reset and go on to the next alternative
ScalarDone(r) ==
    IF r.ok
    THEN /\ stack' = Pop
         /\ ret' = [ok |-> TRUE, val |-> Tagged(Top.alt, r.val)]
         /\ pos' = r.pos
    ELSE IF IsPanic(r)
    THEN /\ stack' = <<>>
         /\ ret' = Returned(r)
         /\ pos' = r.pos
    ELSE /\ stack' = SetTop([Top EXCEPT !.alt = @ + 1])
         /\ ret' = NoRet
         /\ pos' = AltNext(Top.at, r)

\* parse_value: one of parse_null, parse_bool, parse_num, parse_string
TryScalar ==
    /\ CanTake("TryScalar")
    /\ ScalarDone(Scalar(Top.alt, input, pos))
    /\ Step

\* parse_value: the call of parse_array
CallArray ==
    /\ CanTake("CallArray")
    /\ stack' = Append(stack, ListFrame("array", pos))
    /\ UNCHANGED <<pos, ret>>
    /\ Step

\* parse_value: the call of parse_object
CallObject ==
    /\ CanTake("CallObject")
    /\ stack' = Append(stack, ListFrame("object", pos))
    /\ UNCHANGED <<pos, ret>>
    /\ Step

\* alt, after parse_array or parse_object returned
AltReturn ==
    /\ CanTake("AltReturn")
    /\ IF ret.ok
       THEN /\ stack' = Pop
            /\ ret' = [ok |-> TRUE, val |-> Tagged(Top.alt, ret.val)]
            /\ pos' = pos
       ELSE IF Top.alt < NumAlts
       THEN /\ stack' = SetTop([Top EXCEPT !.alt = @ + 1])
            /\ ret' = NoRet
            /\ pos' = AltNext(Top.at, Err(pos))
       ELSE /\ stack' = Pop
            /\ ret' = Returned(AltFail(Top.at, Err(pos)))
            /\ pos' = AltFail(Top.at, Err(pos)).pos
    /\ Step

\* delimited, after the opening token: go on to the items, or return its error
OpenDone(r) ==
    /\ stack' = IF r.ok
                THEN SetTop([Top EXCEPT !.phase = "elem", !.mark = r.pos, !.end = r.pos])
                ELSE Pop
    /\ ret' = IF r.ok THEN NoRet ELSE Returned(r)
    /\ pos' = r.pos

\* parse_array / parse_object: skip_whitespace('[') / skip_whitespace('{')
ListOpen ==
    /\ CanTake("ListOpen")
    /\ OpenDone(SkipWhitespace(OpenOf(Top.k), input, pos))
    /\ Step

\* parse_array: separated calls parse_value for the next element
ArrayElement ==
    /\ CanTake("ArrayElement")
    /\ stack' = Append(stack, ValueFrame(pos))
    /\ UNCHANGED <<pos, ret>>
    /\ Step

\* separated_pair, after the ':': call parse_value, or the pair has failed
ColonDone(k, c) ==
    /\ stack' = IF c.ok
                THEN Append(SetTop([Top EXCEPT !.key = k.val]), ValueFrame(c.pos))
                ELSE stack
    /\ ret' = IF c.ok THEN NoRet ELSE Returned(c)
    /\ pos' = c.pos

\* separated_pair, after the key: the ':', or the pair has failed
KeyDone(k) ==
    IF k.ok THEN ColonDone(k, SkipWhitespace(":", input, k.pos))
    ELSE /\ ret' = Returned(k)
         /\ pos' = k.pos
         /\ UNCHANGED stack

\* parse_object: separated calls the pair parser: the key, the ':' and
\* then the call of parse_value
ObjectKey ==
    /\ CanTake("ObjectKey")
    /\ KeyDone(ParseString(input, pos))
    /\ Step

\* the item an element adds to the list
ItemOf(f, v) == IF f.k = "array" THEN v ELSE <<f.key, v>>

\* separated, after an element: accumulate it; a failed first element is the
\* error of the list unless none is needed; after a later failed element
\* reset to before its separator and stop
ElementReturn ==
    /\ CanTake("ElementReturn")
    /\ IF ret.ok
       THEN /\ stack' = SetTop([Top EXCEPT !.acc = Append(@, ItemOf(Top, ret.val)),
                                           !.phase = "sep",
                                           !.began = Top.mark, !.end = pos])
            /\ ret' = NoRet
            /\ pos' = pos
       ELSE IF IsPanic(ret) \/ (Top.acc = <<>> /\ MinOf(Top.k) > 0)
       THEN /\ stack' = Pop
            /\ UNCHANGED <<ret, pos>>
       ELSE /\ stack' = SetTop([Top EXCEPT !.phase = "close"])
            /\ ret' = NoRet
            /\ pos' = Top.mark
    /\ Step

\* separated, after the separator: the next element, or reset and stop
SeparatorDone(r) ==
    /\ stack' = IF r.ok
                THEN SetTop([Top EXCEPT !.phase = "elem", !.mark = pos])
                ELSE SetTop([Top EXCEPT !.phase = "close"])
    /\ pos' = IF r.ok THEN r.pos ELSE pos
    /\ UNCHANGED ret

\* separated: skip_whitespace(',')
ListSeparator ==
    /\ CanTake("ListSeparator")
    /\ SeparatorDone(SkipWhitespace(",", input, pos))
    /\ Step

\* what parse_array / parse_object return for the items
ListValue(f) == IF f.k = "array" THEN f.acc ELSE CollectMap(f.acc, <<>>)

\* delimited, after the closing token
CloseDone(r) ==
    /\ stack' = Pop
    /\ ret' = IF r.ok THEN [ok |-> TRUE, val |-> ListValue(Top)] ELSE Returned(r)
    /\ pos' = r.pos

\* parse_array / parse_object: skip_whitespace(']') / skip_whitespace('}')
ListClose ==
    /\ CanTake("ListClose")
    /\ CloseDone(SkipWhitespace(CloseOf(Top.k), input, pos))
    /\ Step

\* the outermost parse_value call returns to its caller
RunReturn ==
    /\ CanTake("RunReturn")
    /\ op' = "parse_value"
    /\ start' = 0
    /\ res' = ret
    /\ UNCHANGED <<input, pos, stack, ret, steps>>

\* the documents a step-by-step run starts from
RunInputs == TokInputs \cup ArrayInputs \cup ObjectInputs

\* parse_value(input) has just been called on a fresh input
RunInit ==
    /\ input \in RunInputs
    /\ pos = 0
    /\ op = "none"
    /\ start = 0
    /\ res = [ok |-> TRUE, val |-> NoVal]
    /\ stack = <<ValueFrame(0)>>
    /\ ret = NoRet
    /\ steps = 0

RunNext ==
    \/ TryScalar
    \/ CallArray
    \/ CallObject
    \/ AltReturn
    \/ ListOpen
    \/ ArrayElement
    \/ ObjectKey
    \/ ElementReturn
    \/ ListSeparator
    \/ ListClose
    \/ RunReturn

\* the call runs on until it returns: nothing suspends or cancels it
RunSpec == RunInit /\ [][RunNext]_vars /\ WF_vars(RunNext)

\* the run has returned
RunDone == op = "parse_value"

\* a step-by-step run returns what the parse_value operator computes
RunAgreesWithParseValue ==
    RunDone =>
        /\ res = Returned(ParseValue(input, 0))
        /\ pos = ParseValue(input, 0).pos

(***************************************************************************)
(* Properties.                                                             *)
(***************************************************************************)
\* the text the last call consumed
Consumed == Slice(input, start, pos)

Contains(c, t) == \E k \in 1..Len(t) : t[k] = c

\* only whitespace is left from offset i on
RestIsWhitespace(s, i) == RunEnd(WhiteSpace, s, i) = Len(s)

\* C1: parse_json accepts a document only if nothing but whitespace follows
\* the top-level value; with other text after the value it returns an error.
C1_ParseJsonExhaustsInput ==
    (op = "parse_json" /\ res.ok) => RestIsWhitespace(input, pos)

\* the shape ('-')? digit+ '.' digit+ at offset i: where its parts end
LitIntStart(s, i) == IF i < Len(s) /\ s[i + 1] = "-" THEN i + 1 ELSE i

LitIntEnd(s, i) == RunEnd(Digits, s, LitIntStart(s, i))

LitFracEnd(s, i) == RunEnd(Digits, s, LitIntEnd(s, i) + 1)

IsFloatLiteral(s, i) ==
    /\ LitIntEnd(s, i) > LitIntStart(s, i)
    /\ LitIntEnd(s, i) < Len(s)
    /\ s[LitIntEnd(s, i) + 1] = "."
    /\ LitFracEnd(s, i) > LitIntEnd(s, i) + 1

\* the decimal value the literal text at offset i denotes
LiteralDecimal(s, i) ==
    FloatV(LitIntStart(s, i) > i,
           StripLeadingZeros(Slice(s, LitIntStart(s, i), LitIntEnd(s, i))),
           Slice(s, LitIntEnd(s, i) + 1, LitFracEnd(s, i)))

\* C2: on every literal ('-')? digit+ '.' digit+ parse_num yields the Float
\* whose value is the decimal value the literal text denotes.
C2_FloatIsLiteralValue ==
    (op = "parse_num" /\ IsFloatLiteral(input, start)) =>
        /\ res.ok
        /\ pos = LitFracEnd(input, start)
        /\ res.val = LiteralDecimal(input, start)

\* C3: a successful parse_num gives Int iff the consumed literal has no '.',
\* Float whenever it has one (a zero fraction included), and an Int result
\* is the signed value of the digit run.
C3_IntIffNoDot ==
    (op = "parse_num" /\ res.ok) =>
        /\ (res.val[1] = "Int") <=> ~Contains(".", Consumed)
        /\ Contains(".", Consumed) => res.val[1] = "Float"
        /\ ~Contains(".", Consumed) =>
               res.val = IntV(LitIntStart(input, start) > start,
                              StripLeadingZeros(Slice(input, LitIntStart(input, start), pos)))

\* parse_num has consumed a literal with an all-zero fraction, and one without '.'
C3_Witness ==
    /\ op = "parse_num" /\ res.ok
    /\ Consumed = <<"-", "5", ".", "0">>
    /\ res.val[1] = "Float"

\* C4: every parser is atomic on failure: when it returns an error the
\* cursor is at the offset of the call.
C4_AtomicOnFailure ==
    (/\ op \in {"parse_null", "parse_bool", "parse_num", "parse_string",
                "parse_array", "parse_object"}
     /\ ~res.ok)
        => pos = start

\* the alternatives of parse_value, each run on its own at offset i
Alternatives(s, i) ==
    <<ParseNull(s, i), ParseBool(s, i), ParseNum(s, i), ParseString(s, i),
      ParseArray(s, i), ParseObject(s, i)>>

\* C5: parse_value returns the outcome of the first of null, bool, number,
\* string, array, object that succeeds at the offset of the call, and fails
\* only when all six fail there: nothing a failed alternative consumed is
\* seen by a later one.
C5_FirstSuccessfulAlternative ==
    op = "parse_value" =>
        LET alts == Alternatives(input, start)
            oks  == {k \in 1..6 : alts[k].ok}
        IN  IF oks = {} THEN ~res.ok
            ELSE LET k == CHOOSE m \in oks : \A n \in oks : m <= n
                 IN  /\ res.ok
                     /\ pos = alts[k].pos
                     /\ res.val = Tagged(k, alts[k].val)

\* parse_value failed although parse_num consumed a '-' before failing and
\* parse_string would have succeeded right after it
C5_Witness ==
    /\ op = "parse_value" /\ ~res.ok
    /\ ParseNum(input, start).pos > start
    /\ ParseString(input, ParseNum(input, start).pos).ok

\* the JsonValue tree the last call returned
Tree ==
    CASE op = "parse_array" -> JArray(res.val)
      [] op = "parse_object" -> JObject(res.val)
      [] OTHER -> res.val

RECURSIVE NoEmptyComposite(_)
\* every Array and Object node of the tree v has at least one element
NoEmptyComposite(v) ==
    CASE v[1] = "Array" ->
            /\ Len(v[2]) >= 1
            /\ \A k \in 1..Len(v[2]) : NoEmptyComposite(v[2][k])
      [] v[1] = "Object" ->
            /\ DOMAIN v[2] # {}
            /\ \A k \in DOMAIN v[2] : NoEmptyComposite(v[2][k])
      [] OTHER -> TRUE

\* at offset i: whitespace, `open`, whitespace, `close`
IsEmptyBrackets(open, close, s, i) ==
    /\ RunEnd(WhiteSpace, s, i) < Len(s)
    /\ s[RunEnd(WhiteSpace, s, i) + 1] = open
    /\ RunEnd(WhiteSpace, s, RunEnd(WhiteSpace, s, i) + 1) < Len(s)
    /\ s[RunEnd(WhiteSpace, s, RunEnd(WhiteSpace, s, i) + 1) + 1] = close

RECURSIVE LastNonWs(_, _)
\* the last index <= k of t that holds no whitespace, 0 if there is none
LastNonWs(t, k) ==
    IF k <= 0 THEN 0
    ELSE IF t[k] \in WhiteSpace THEN LastNonWs(t, k - 1)
    ELSE k

\* the text t ends, whitespace aside, in a ',' and one more character
EndsWithTrailingComma(t) ==
    /\ LastNonWs(t, LastNonWs(t, Len(t)) - 1) > 0
    /\ t[LastNonWs(t, LastNonWs(t, Len(t)) - 1)] = ","

\* C6: "[]" and "{}" (whitespace between the brackets or not) are errors for
\* parse_array, parse_object and parse_value, every Array and Object node of
\* a parsed tree has at least one element, and no composite is accepted
\* with a comma right before its closing bracket.
C6_NoEmptyComposites ==
    /\ (/\ op \in {"parse_array", "parse_value", "parse_json"}
        /\ IsEmptyBrackets("[", "]", input, start)) => ~res.ok
    /\ (/\ op \in {"parse_object", "parse_value", "parse_json"}
        /\ IsEmptyBrackets("{", "}", input, start)) => ~res.ok
    /\ (/\ op \in {"parse_array", "parse_object", "parse_value", "parse_json"}
        /\ res.ok)
           => /\ NoEmptyComposite(Tree)
              /\ Tree[1] \in {"Array", "Object"} => ~EndsWithTrailingComma(Consumed)

\* parse_value has been run on "[ ]" and returned an error
C6_Witness ==
    /\ op = "parse_value" /\ ~res.ok
    /\ input = <<"[", " ", "]">>

\* the object documents with one to MaxPairs pairs, each with its value
WellFormedObjectInputs ==
    UNION {{Weave(ObjectToks(ps), g) : g \in Gaps(Len(ObjectToks(ps)))} :
              ps \in SeqsUpTo(KeyTexts \X {<<"1">>, <<"0">>}, MaxPairs) \ {<<>>}}

\* the pairs of the object literal at the offset of the call, in source order
SourcePairs == ParsePairs(input, start).val

\* C7: a duplicate key never makes parse_object fail; the map holds exactly
\* the keys of the pairs, each mapped to the value of its last occurrence in
\* source order.
C7_LastDuplicateWins ==
    op = "parse_object" =>
        /\ (start = 0 /\ input \in WellFormedObjectInputs) =>
               res.ok /\ pos = Len(input)
        /\ res.ok =>
               /\ DOMAIN res.val = {SourcePairs[k][1] : k \in 1..Len(SourcePairs)}
               /\ \A k \in 1..Len(SourcePairs) :
                     (\A j \in (k + 1)..Len(SourcePairs) :
                          SourcePairs[j][1] # SourcePairs[k][1])
                         => res.val[SourcePairs[k][1]] = SourcePairs[k][2]

\* parse_object returned Ok on a literal that gives one key two values
C7_Witness ==
    /\ op = "parse_object" /\ res.ok
    /\ \E j, k \in 1..Len(SourcePairs) :
          /\ j < k
          /\ SourcePairs[j][1] = SourcePairs[k][1]
          /\ SourcePairs[j][2] # SourcePairs[k][2]

\* the offsets of the '"' characters after the opening quote at offset i
ClosingQuotes(s, i) == {j \in (i + 1)..(Len(s) - 1) : s[j + 1] = "\""}

\* C8: on input starting with '"', parse_string yields the text between
\* that quote and the first '"' after it, verbatim, and leaves the cursor
\* just after that closing quote; a backslash before a quote does not keep
\* the quote from ending the string.
C8_StringUpToFirstQuote ==
    (op = "parse_string" /\ start < Len(input) /\ input[start + 1] = "\"") =>
        IF ClosingQuotes(input, start) = {} THEN ~res.ok
        ELSE LET j == CHOOSE m \in ClosingQuotes(input, start) :
                          \A n \in ClosingQuotes(input, start) : m <= n
             IN  /\ res.ok
                 /\ res.val = Slice(input, start + 1, j)
                 /\ pos = j + 1
                 /\ ~Contains("\"", res.val)

\* parse_string ended a string at a quote that follows a backslash, with
\* more text and another quote after it
C8_Witness ==
    /\ op = "parse_string" /\ res.ok
    /\ res.val = <<"\\">>
    /\ Contains("\"", Slice(input, pos, Len(input)))

\* the structural tokens of the grammar
StructChars == {"[", "]", "{", "}", ",", ":"}

\* index k of s lies outside every quoted string: an even number of '"'
\* precede it
OutsideString(s, k) == Cardinality({j \in 1..(k - 1) : s[j] = "\""}) % 2 = 0

IsStructuralAt(s, k) ==
    k \in 1..Len(s) /\ s[k] \in StructChars /\ OutsideString(s, k)

RECURSIVE WsRunFirst(_, _)
\* the first index of the whitespace run that holds index k
WsRunFirst(s, k) ==
    IF k > 1 /\ s[k - 1] \in WhiteSpace THEN WsRunFirst(s, k - 1) ELSE k

RECURSIVE WsRunLast(_, _)
WsRunLast(s, k) ==
    IF k < Len(s) /\ s[k + 1] \in WhiteSpace THEN WsRunLast(s, k + 1) ELSE k

\* index k holds whitespace of a run, outside strings, that touches a
\* structural token
IsTokenWhitespace(s, k) ==
    /\ s[k] \in WhiteSpace
    /\ OutsideString(s, k)
    /\ \/ IsStructuralAt(s, WsRunFirst(s, k) - 1)
       \/ IsStructuralAt(s, WsRunLast(s, k) + 1)

RECURSIVE CompactFrom(_, _)
CompactFrom(s, k) ==
    IF k > Len(s) THEN <<>>
    ELSE (IF IsTokenWhitespace(s, k) THEN <<>> ELSE <<s[k]>>) \o CompactFrom(s, k + 1)

\* s with every whitespace run before or after a structural token removed
Compact(s) == CompactFrom(s, 1)

IsComposite(r) == r.ok /\ r.val[1] \in {"Array", "Object"}

\* C9: whitespace before or after a structural token changes neither
\* whether an array or object document is accepted nor the value it gives:
\* a document and its compact form (all such whitespace removed) agree.
C9_WhitespaceInsensitive ==
    (op = "parse_value" /\ start = 0) =>
        /\ IsComposite(res) <=> IsComposite(ParseValue(Compact(input), 0))
        /\ IsComposite(res) =>
              /\ res.val = ParseValue(Compact(input), 0).val
              /\ (pos = Len(input))
                     <=> (ParseValue(Compact(input), 0).pos = Len(Compact(input)))

\* parse_value accepted a whole object document that has a tab or newline
\* next to a structural token
C9_Witness ==
    /\ op = "parse_value" /\ start = 0 /\ pos = Len(input)
    /\ res.ok /\ res.val[1] = "Object"
    /\ Contains("\n", input)
    /\ Compact(input) # input

\* the object documents of one pair that has no value: '{' key ':' '}',
\* whitespace woven in
MissingValueInputs ==
    UNION {{Weave(ObjectToks(<<(<<k, <<>>>>)>>), g) :
               g \in Gaps(Len(ObjectToks(<<(<<k, <<>>>>)>>)))} : k \in KeyTexts}

C11_NoPanic ==
    (op # "none") => (res.ok \/ res.val = NoVal)

\* parse_value has parsed a negative literal whose integer part and fraction
\* are both i64::MAX: parse_num reached the unwrap and the negation
C11_Witness ==
    /\ op = "parse_value" /\ res.ok
    /\ Consumed = <<"-">> \o I64MaxDigits \o <<".">> \o I64MaxDigits
    /\ res.val[2][1] = "Float"

\* the parse_value calls in progress
ValueFrames == {k \in 1..Len(stack) : stack[k].k = "value"}

\* the parse_array and parse_object calls in progress
ListFrames == {k \in 1..Len(stack) : stack[k].k \in {"array", "object"}}

\* a bound on the steps of a parse_value call on n characters: at most n + 1
\* calls of parse_value, each trying each alternative once
StepBound(n) == 2 * NumAlts * (n + 1)

\* the measure that bounds a run by the length of the input
C12_Bounded ==
    \* a recursive call of parse_value starts after the offset at which the
    \* parse_array or parse_object that makes it was called
    /\ \A k \in ValueFrames : k > 1 => stack[k].at > stack[k - 1].at
    \* a list that has items has consumed characters in its last iteration
    /\ \A k \in ListFrames : stack[k].acc # <<>> => stack[k].end > stack[k].began
    \* a call site is at one of its alternatives, those before it are done with
    /\ \A k \in ValueFrames : stack[k].alt \in 1..NumAlts
    \* recursion depth and steps are bounded by the length of the input
    /\ Cardinality(ValueFrames) <= Len(input) + 1
    /\ steps <= StepBound(Len(input))
    \* a call that has not returned can take a step
    /\ ~RunDone => \E a \in StepNames : CanTake(a)

\* a step that changes a call site moves it on to a later alternative, and
\* every step before the return counts
C12_Progress ==
    /\ \A k \in ValueFrames :
           (k <= Len(stack') /\ stack'[k].k = "value" /\ stack'[k].at = stack[k].at)
               => stack'[k].alt >= stack[k].alt
    /\ steps' = steps + 1 \/ RunDone'

\* C12: every parse_value call on a finite input terminates: a recursive
\* call into parse_value is made only after parse_array or parse_object
\* consumed a character, every iteration of a list consumes a character,
\* a call site tries each alternative at most once, so that recursion depth
\* and steps are bounded by the length of the input.  A run whose every
\* step counts, whose count is bounded and which is never stuck before it
\* returns is a run that returns.
C12_Terminates == []C12_Bounded /\ [][C12_Progress]_vars

\* a run has returned an array of two items whose second is an array: list
\* iterations, a recursive call and failed alternatives have all happened
C12_Witness ==
    /\ RunDone /\ res.ok
    /\ res.val[1] = "Array" /\ Len(res.val[2]) = 2
    /\ res.val[2][2][1] = "Array"
    /\ steps > NumAlts

\* the digit run denotes a number greater than 2^63 - 1
ExceedsI64Max(d) == ~MagnitudeLeq(StripLeadingZeros(d), I64MaxDigits)

\* the integer digit run of the literal at offset i, and the digit run after
\* its '.', empty when there is none
LitIntRun(s, i) == Slice(s, LitIntStart(s, i), LitIntEnd(s, i))

LitFracRun(s, i) ==
    IF LitIntEnd(s, i) < Len(s) /\ s[LitIntEnd(s, i) + 1] = "."
    THEN Slice(s, LitIntEnd(s, i) + 1, LitFracEnd(s, i))
    ELSE <<>>

\* C13: parse_num converts the integer digit run and the fractional digit
\* run each as a non-negative i64 before it applies the sign: it fails on a
\* literal one of whose runs denotes more than 2^63 - 1, "-9223372036854775808"
\* included, and the magnitude of every Int it returns is at most 2^63 - 1.
C13_RunsConvertedUnsigned ==
    op = "parse_num" =>
        /\ (LitIntRun(input, start) # <<>> /\ ExceedsI64Max(LitIntRun(input, start)))
               => ~res.ok
        /\ (LitIntRun(input, start) # <<>> /\ ExceedsI64Max(LitFracRun(input, start)))
               => ~res.ok
        /\ (start = 0 /\ input = <<"-">> \o I64MinMagnitude) => ~res.ok
        /\ (res.ok /\ res.val[1] = "Int") =>
               /\ MagnitudeLeq(res.val[3], I64MaxDigits)
               /\ res.val[3] = StripLeadingZeros(LitIntRun(input, start))

\* parse_num has rejected "-9223372036854775808", the cursor after its '-'
C13_Witness ==
    /\ op = "parse_num" /\ ~res.ok
    /\ start = 0 /\ input = <<"-">> \o I64MinMagnitude
    /\ pos = 1

\* where the whitespace at offset i ends
AfterWhitespace(s, i) == RunEnd(WhiteSpace, s, i)

\* the character at offset i opens an array or an object
OpensComposite(s, i) == i < Len(s) /\ s[i + 1] \in {"[", "{"}

\* C14: parse_value skips whitespace before '[' or '{' and consumes the
\* whitespace after the matching ']' or '}', but fails on a scalar (on
\* anything but '[' or '{') that whitespace precedes and leaves whitespace
\* after a scalar unconsumed: " [1] " parses to the end of the input, " 1"
\* is an error, and after "1 " the cursor is before the space.
C14_EdgeWhitespace ==
    op = "parse_value" =>
        \* whitespace before a composite makes no difference
        /\ OpensComposite(input, AfterWhitespace(input, start)) =>
               /\ res = Returned(ParseValue(input, AfterWhitespace(input, start)))
               /\ res.ok => pos = ParseValue(input, AfterWhitespace(input, start)).pos
        \* whitespace before anything else is an error
        /\ (AfterWhitespace(input, start) > start
              /\ ~OpensComposite(input, AfterWhitespace(input, start))) => ~res.ok
        \* no whitespace is left right after a composite
        /\ (res.ok /\ res.val[1] \in {"Array", "Object"}) =>
               AfterWhitespace(input, pos) = pos
        \* a scalar ends with its last character
        /\ (res.ok /\ res.val[1] \notin {"Array", "Object"}) =>
               input[pos] \notin WhiteSpace
        /\ (start = 0 /\ input = <<" ", "[", "1", "]", " ">>) => (res.ok /\ pos = 5)
        /\ (start = 0 /\ input = <<" ", "1">>) => ~res.ok
        /\ (start = 0 /\ input = <<"1", " ">>) => (res.ok /\ pos = 1)

\* parse_value has parsed " [1] " to the end of the input
C14_Witness ==
    /\ op = "parse_value" /\ res.ok
    /\ start = 0 /\ input = <<" ", "[", "1", "]", " ">>
    /\ pos = Len(input)

====
